---- MODULE Spec2Model ----
(***************************************************************************)
(* A model of src/style_transfer.py: the driver style_transfer (argument   *)
(* normalisation, extractor construction, the epoch/step loop, train_step  *)
(* and style_content_loss), clip_0_1 and _gram_matrix.                     *)
(*                                                                         *)
(* Numbers.  Losses and weights are exact rationals <<num, den>>.  Pixel   *)
(* values are integers in units of 1/Unit, so the pixel value 1.0 is Unit. *)
(* The pretrained network is external: what it returns for an image is a   *)
(* nondeterministic choice of one activation level per layer.  Layer names *)
(* are sequences of one-character strings, so that list() of a name can be *)
(* computed the way Python computes it.                                    *)
(***************************************************************************)
EXTENDS Integers, Sequences, FiniteSets, TLC

\* ------------------------------------------------------------------ bounds
MaxLayers == 2
MaxEpochs == 2
MaxSteps == 1
MaxVal == 2
NPix == 2
Unit == 2
MaxDim == 3
MaxChan == 2

\* --------------------------------------------------------------- rationals
Abs(x) == IF x < 0 THEN -x ELSE x

Min(a, b) == IF a < b THEN a ELSE b

RECURSIVE GCD(_, _)
GCD(a, b) == IF b = 0 THEN a ELSE GCD(b, a % b)

\* the rational n/d, d > 0, in lowest terms
R(n, d) == LET g == GCD(Abs(n), d) IN <<n \div g, d \div g>>

\* NaN, written as the quotient 0/0 that produces it; it propagates through
\* every operation and is not >= 0
NaN == <<0, 0>>

IsNaN(x) == x[2] = 0

RInt(n) == <<n, 1>>

LCM(a, b) == (a \div GCD(a, b)) * b

RAdd(x, y) ==
    IF IsNaN(x) \/ IsNaN(y) THEN NaN
    ELSE LET l == LCM(x[2], y[2])
         IN  R(x[1] * (l \div x[2]) + y[1] * (l \div y[2]), l)

RNeg(x) == <<-x[1], x[2]>>

RSub(x, y) == RAdd(x, RNeg(y))

\* cross-cancelled first, so that the products stay small
RMul(x, y) ==
    IF IsNaN(x) \/ IsNaN(y) THEN NaN
    ELSE LET a == R(x[1], y[2])
             b == R(y[1], x[2])
         IN  <<a[1] * b[1], a[2] * b[2]>>

\* x / k for an integer k > 0
RDivInt(x, k) == IF IsNaN(x) THEN NaN ELSE R(x[1], x[2] * k)

RAbs(x) == <<Abs(x[1]), x[2]>>

RGeq0(x) == ~IsNaN(x) /\ x[1] >= 0

RECURSIVE RSum(_)
RSum(s) == IF s = <<>> THEN RInt(0) ELSE RAdd(s[1], RSum(Tail(s)))

\* ------------------------------------------------------------- layer names
Block(b, c) == <<"b", "l", "o", "c", "k", b, "_", "c", "o", "n", "v", c>>

\* the convolution layers of tf.keras.applications.VGG19
VggLayerNames ==
    {Block(b, c) : b \in {"1", "2"}, c \in {"1", "2"}}
        \cup {Block(b, c) : b \in {"3", "4", "5"}, c \in {"1", "2", "3", "4"}}

\* a name that VGG19 does not have
NoSuchLayer == <<"c", "o", "n", "v", "1">>

StyleNames == {Block("1", "1"), Block("2", "1")}

ContentNames == {Block("4", "1"), NoSuchLayer}

\* sequences over S of length lo..hi
SeqsOf(S, lo, hi) == UNION {[1..k -> S] : k \in lo..hi}

\* ------------------------------------------------------------ Python values
\* The content_layers argument is a str or a sequence of str.
PyStr(name) == [kind |-> "str", val |-> name]

PySeq(names) == [kind |-> "seq", val |-> names]

\* list(x): a str yields its characters, each a str of length one
list(x) ==
    IF x.kind = "str" THEN [i \in 1..Len(x.val) |-> <<x.val[i]>>] ELSE x.val

\* dict(zip(keys, vals)): zip stops at the shorter argument, and a key that
\* occurs twice keeps the value of its last occurrence
DictZip(keys, vals) ==
    LET k == Min(Len(keys), Len(vals))
        last(name) == CHOOSE i \in 1..k :
                          /\ keys[i] = name
                          /\ \A j \in (i + 1)..k : keys[j] # name
    IN  [name \in {keys[i] : i \in 1..k} |-> vals[last(name)]]

\* the keys of a dict, in insertion order, as a sequence without repetition
RECURSIVE KeySeq(_)
KeySeq(keys) ==
    IF keys = <<>> THEN <<>>
    ELSE LET front == SubSeq(keys, 1, Len(keys) - 1)
             k == keys[Len(keys)]
         IN  IF \E i \in 1..Len(front) : front[i] = k
             THEN KeySeq(front)
             ELSE Append(KeySeq(front), k)

None == "None"

\* ------------------------------------------------------------------ images
\* An image is a row of NPix one-channel pixels (batch and channel axes of
\* length one are left out).
Images == [1..NPix -> 0..Unit]

GreyImage == [i \in 1..NPix |-> Unit \div 2]

EdgeImage == [i \in 1..NPix |-> IF i % 2 = 1 THEN 0 ELSE Unit]

\* what the external network and optimizer may produce
ActVals == {0, 1}

DeltaVals == {-(Unit + 1), -1, 0, 1, Unit + 1}

\* ----------------------------------------------------------- configurations
\* the default per-layer weights of style_transfer, (0.1, 0.2, 0.5, 0.8, 1)
DefaultLayerWeights == <<R(1, 10), R(1, 5), R(1, 2), R(4, 5), R(1, 1)>>

DefaultStyleWeight == R(1, 100)

DefaultContentWeight == RInt(100)

DefaultTotalVariationWeight == R(1, 100)

Negated(ws) == [i \in 1..Len(ws) |-> RNeg(ws[i])]

\* a configuration that names layers as lists and runs one step
BaseConfig ==
    [content_layers |-> PySeq(<<Block("4", "1")>>),
     style_layers |-> <<Block("1", "1"), Block("2", "1")>>,
     style_layer_weights |-> SubSeq(DefaultLayerWeights, 1, 2),
     style_weight |-> DefaultStyleWeight,
     content_weight |-> DefaultContentWeight,
     total_variation_weight |-> DefaultTotalVariationWeight,
     epochs |-> 1,
     steps_per_epoch |-> 1,
     content_image |-> GreyImage,
     act_side |-> 2]

ContentChoices ==
    {PyStr(Block("4", "1"))}
        \cup {PySeq(s) : s \in SeqsOf(ContentNames, 1, MaxLayers)}

StyleChoices == SeqsOf(StyleNames, 1, MaxLayers)

WeightChoices ==
    {SubSeq(DefaultLayerWeights, 1, k) : k \in 1..(MaxLayers + 1)}

\* the content-layer argument and the loop bounds vary
LoopConfigs ==
    {[BaseConfig EXCEPT !.content_layers = c, !.epochs = e,
                        !.steps_per_epoch = s] :
        c \in ContentChoices, e \in 0..MaxEpochs, s \in 0..MaxSteps}

\* the style layers and their weights vary, lengths equal or not
LayerConfigs ==
    {[BaseConfig EXCEPT !.style_layers = l, !.style_layer_weights = w,
                        !.epochs = e] :
        l \in StyleChoices, w \in WeightChoices, e \in 0..1}

\* the signs of the weights vary, on an image that is not flat
SignConfigs ==
    {[BaseConfig EXCEPT !.style_weight = sw, !.content_weight = cw,
                        !.total_variation_weight = tvw,
                        !.style_layer_weights = w,
                        !.content_image = EdgeImage] :
        sw \in {DefaultStyleWeight, RInt(-1)},
        cw \in {DefaultContentWeight, RInt(-1)},
        tvw \in {DefaultTotalVariationWeight, RInt(-1)},
        w \in {BaseConfig.style_layer_weights,
               Negated(BaseConfig.style_layer_weights)}}

\* the content image varies, with and without steps
ImageConfigs ==
    {[BaseConfig EXCEPT !.content_image = img, !.epochs = es[1],
                        !.steps_per_epoch = es[2]] :
        img \in Images, es \in {<<0, 1>>, <<1, 0>>, <<1, 1>>}}

\* images so small that the activation maps are a single position
SmallConfigs ==
    {[BaseConfig EXCEPT !.act_side = 1, !.content_image = img] :
        img \in {GreyImage, EdgeImage}}

Configs ==
    LoopConfigs \cup LayerConfigs \cup SignConfigs \cup ImageConfigs
        \cup SmallConfigs

\* ------------------------------------------------------------------- state
VARIABLES
    pc,                     \* "start", "loop", "done" or "error"
    error,                  \* the exception that ended the run, or None
    configured,             \* the arguments style_transfer was called with
    content_layers, style_layers, style_layer_weights,
    style_weight, content_weight, total_variation_weight,
    epochs, steps_per_epoch, content_image,
    act_side,               \* the side of the activation maps of this run
    num_content_layers, num_style_layers,
    extractor,              \* the StyleContentModel, or None
    style_targets, content_targets,
    image,                  \* the candidate image, or None
    step, n, m,             \* the step counter and the two loop indices
    tape,                   \* what the last train_step computed
    updates,                \* how many times opt.apply_gradients ran
    checkpoints,            \* the images save_image wrote, in order
    input_tensor, offset, gram   \* an application of _gram_matrix

runVars ==
    <<pc, error, configured, content_layers, style_layers,
      style_layer_weights, style_weight, content_weight,
      total_variation_weight, epochs, steps_per_epoch, content_image,
      act_side, num_content_layers, num_style_layers, extractor,
      style_targets, content_targets, image, step, n, m, tape, updates,
      checkpoints>>

configVars ==
    <<configured, style_layer_weights, style_weight, content_weight,
      total_variation_weight, epochs, steps_per_epoch, content_image,
      act_side>>

gramVars == <<input_tensor, offset, gram>>

vars == <<runVars, gramVars>>

NoTape == [computed |-> FALSE]

\* the state on entry to style_transfer(c)
Called(c) ==
    /\ pc = "start"
    /\ error = None
    /\ configured = c
    /\ content_layers = c.content_layers
    /\ style_layers = c.style_layers
    /\ style_layer_weights = c.style_layer_weights
    /\ style_weight = c.style_weight
    /\ content_weight = c.content_weight
    /\ total_variation_weight = c.total_variation_weight
    /\ epochs = c.epochs
    /\ steps_per_epoch = c.steps_per_epoch
    /\ content_image = c.content_image
    /\ act_side = c.act_side
    /\ num_content_layers = None
    /\ num_style_layers = None
    /\ extractor = None
    /\ style_targets = None
    /\ content_targets = None
    /\ image = None
    /\ step = 0
    /\ n = 0
    /\ m = 0
    /\ tape = NoTape
    /\ updates = 0
    /\ checkpoints = <<>>

\* ------------------------------------------------------------ _gram_matrix
\* A tensor is a sequence of H rows, each a sequence of W positions, each a
\* sequence of C channel values (the batch axis, of length one, is left out).
\* s[k:]
SliceFrom(s, k) == SubSeq(s, k + 1, Len(s))

\* s[:-k], for k >= 1
SliceUntilNeg(s, k) == SubSeq(s, 1, Len(s) - k)

\* input_tensor[:, k:, k:, :]
CropFrom(t, k) ==
    LET rows == SliceFrom(t, k)
    IN  [i \in 1..Len(rows) |-> SliceFrom(rows[i], k)]

\* input_tensor[:, :-k, :-k, :]
CropUntilNeg(t, k) ==
    LET rows == SliceUntilNeg(t, k)
    IN  [i \in 1..Len(rows) |-> SliceUntilNeg(rows[i], k)]

RECURSIVE IntSum(_)
IntSum(s) == IF s = <<>> THEN 0 ELSE s[1] + IntSum(Tail(s))

\* tf.linalg.einsum('bijc,bijd->bcd', x, y), where C is the channel count
Einsum(x, y, C) ==
    LET h == Len(x)
        w == IF h = 0 THEN 0 ELSE Len(x[1])
        row(p) == ((p - 1) \div w) + 1
        col(p) == ((p - 1) % w) + 1
        term(p, c, d) == x[row(p)][col(p)][c] * y[row(p)][col(p)][d]
    IN  [c \in 1..C |->
            [d \in 1..C |-> IntSum([p \in 1..(h * w) |-> term(p, c, d)])]]

\* a variant that counts the positions of the whole map, H x W
NumLocationsUncropped(t, k) == Len(t) * Len(t[1])

\* tf.shape(input_tensor[:, k:, k:, :])[1] * [2]
NumLocations(t, k) == Len(SliceFrom(t, k)) * Len(SliceFrom(t[1], k))

\* _gram_matrix(input_tensor, offset); 0/0 is NaN
GramMatrix(t, k) ==
    LET C == Len(t[1][1])
        result == Einsum(CropFrom(t, k), CropUntilNeg(t, k), C)
        num_locations == NumLocations(t, k)
    IN  [c \in 1..C |->
            [d \in 1..C |->
                IF num_locations = 0 THEN NaN
                ELSE R(result[c][d], num_locations)]]

\* ------------------------------------------------------ StyleContentModel
gram_offset_default == 1

\* An activation of the network: a side x side map of one channel, every
\* position at level a.  The side follows from the size of the images.
Activation(a, side) == [i \in 1..side |-> [j \in 1..side |-> <<a>>]]

\* _vgg_layers: vgg.get_layer(name) raises ValueError for an unknown name
VggLayersOk(layer_names) ==
    \A i \in 1..Len(layer_names) : layer_names[i] \in VggLayerNames

\* StyleContentModel.__init__
StyleContentModel(sl, cl, gram_offset) ==
    [vgg |-> sl \o cl,
     style_layers |-> sl,
     content_layers |-> cl,
     num_style_layers |-> Len(sl),
     gram_offset |-> gram_offset]

\* the levels the network may return at the layers the extractor queries
NetOutputs(ex) == [{ex.vgg[i] : i \in 1..Len(ex.vgg)} -> ActVals]

\* the same, with the layers outside `used` held at level 0: a caller that
\* keeps only the outputs at `used` cannot tell the difference
NetOutputsAt(ex, used) ==
    {net \in NetOutputs(ex) :
        \A name \in DOMAIN net :
            (\A i \in 1..Len(used) : used[i] # name) => net[name] = 0}

\* StyleContentModel.call, for the network's result net on the input
ExtractorCall(ex, net) ==
    LET outputs ==
            [i \in 1..Len(ex.vgg) |-> Activation(net[ex.vgg[i]], act_side)]
        style_raw == SubSeq(outputs, 1, ex.num_style_layers)
        content_outputs ==
            SubSeq(outputs, ex.num_style_layers + 1, Len(outputs))
        style_outputs ==
            [i \in 1..Len(style_raw) |->
                GramMatrix(style_raw[i], ex.gram_offset)]
    IN  [content |-> DictZip(ex.content_layers, content_outputs),
         style |-> DictZip(ex.style_layers, style_outputs)]

\* ------------------------------------------------------ style_content_loss
\* a variant without tf.math.abs: tf.reduce_mean(x - y)
SignedMeanDiffMatrix(x, y) ==
    LET C == Len(x)
        diff(p) == RSub(x[((p - 1) \div C) + 1][((p - 1) % C) + 1],
                        y[((p - 1) \div C) + 1][((p - 1) % C) + 1])
    IN  RDivInt(RSum([p \in 1..(C * C) |-> diff(p)]), C * C)

\* tf.reduce_mean(tf.math.abs(x - y)) for two C x C matrices of rationals
MeanAbsDiffMatrix(x, y) ==
    LET C == Len(x)
        diff(p) == RSub(x[((p - 1) \div C) + 1][((p - 1) % C) + 1],
                        y[((p - 1) \div C) + 1][((p - 1) % C) + 1])
    IN  RDivInt(RSum([p \in 1..(C * C) |-> RAbs(diff(p))]), C * C)

\* tf.reduce_mean(tf.math.abs(x - y)) for two activation tensors
MeanAbsDiffTensor(x, y) ==
    LET h == Len(x)
        w == Len(x[1])
        C == Len(x[1][1])
        at(t, q) == t[((q - 1) \div (w * C)) + 1]
                     [(((q - 1) \div C) % w) + 1]
                     [((q - 1) % C) + 1]
    IN  R(IntSum([q \in 1..(h * w * C) |-> Abs(at(x, q) - at(y, q))]),
          h * w * C)

\* a variant that pairs the layers with the weights in reverse order
StyleWeightsReversed(sl, slw) ==
    DictZip(sl, [i \in 1..Len(slw) |-> slw[Len(slw) + 1 - i]])

\* style_weights = dict(zip(style_layers, list(style_layer_weights)))
StyleWeights(sl, slw) == DictZip(sl, slw)

\* style_weights[name] raises KeyError for a name the zip left out
StyleWeightsKeyError(outputs) ==
    \E name \in DOMAIN outputs.style :
        name \notin DOMAIN StyleWeights(style_layers, style_layer_weights)

\* style_content_loss(outputs): the tuple (loss, content_loss, style_loss)
StyleContentLoss(outputs) ==
    LET style_outputs == outputs.style
        content_outputs == outputs.content
        style_weights == StyleWeights(style_layers, style_layer_weights)
        skeys == KeySeq(extractor.style_layers)
        ckeys == KeySeq(extractor.content_layers)
        style_sum ==
            RSum([i \in 1..Len(skeys) |->
                     RMul(MeanAbsDiffMatrix(style_outputs[skeys[i]],
                                            style_targets[skeys[i]]),
                          style_weights[skeys[i]])])
        style_loss ==
            RMul(style_sum, RDivInt(style_weight, num_style_layers))
        content_sum ==
            RSum([i \in 1..Len(ckeys) |->
                     MeanAbsDiffTensor(content_outputs[ckeys[i]],
                                       content_targets[ckeys[i]])])
        content_loss ==
            RMul(content_sum, RDivInt(content_weight, num_content_layers))
        loss == RAdd(style_loss, content_loss)
    IN  <<loss, content_loss, style_loss>>

\* ---------------------------------------------------------------- helpers
\* a variant that clips at 0.0 only
ClipLowOnly(img) ==
    [i \in DOMAIN img |-> IF img[i] < 0 THEN 0 ELSE img[i]]

\* clip_0_1(image)
clip_0_1(img) ==
    [i \in DOMAIN img |->
        IF img[i] < 0 THEN 0 ELSE IF img[i] > Unit THEN Unit ELSE img[i]]

\* tf.image.total_variation(image), in pixel units
TotalVariation(img) ==
    R(IntSum([i \in 1..(Len(img) - 1) |-> Abs(img[i + 1] - img[i])]), Unit)

\* tuple += tensor: the tuple of three scalars is packed into a tensor of
\* shape [3] and the tensor of shape [1] is broadcast over it
TupleAddTensor(tuple, t) == [i \in 1..Len(tuple) |-> RAdd(tuple[i], t)]

\* tape.gradient(target, image) of a target that is not a scalar
\* differentiates the sum of its elements
GradientTarget(target) == RSum(target)

\* _tensor_to_image: tensor * 255 cast to uint8
TensorToImage(img) == [i \in DOMAIN img |-> (img[i] * 255) \div Unit]

\* a variant that runs one step too many: range(steps_per_epoch + 1)
HasNextStepOffByOne == m <= steps_per_epoch

\* for m in range(steps_per_epoch) has a next value
HasNextStep == m < steps_per_epoch

\* for n in range(epochs) has a next value
HasNextEpoch == n < epochs

\* a variant that saves inside the inner loop
StepsExhaustedAlways == TRUE

\* the inner loop of epoch n is exhausted
StepsExhausted == ~HasNextStep

\* ----------------------------------------------------------------- actions
\* style_transfer up to the loop: the arguments become lists, the extractor
\* is built, the targets are computed once, the candidate starts as the
\* content image.  style_layers is a tuple or list of names, which list()
\* copies.  The files are taken to be readable and save_folder writable.
Construct ==
    /\ pc = "start"
    /\ content_layers' = list(content_layers)
    /\ style_layers' = style_layers
    /\ num_content_layers' = Len(content_layers')
    /\ num_style_layers' = Len(style_layers')
    /\ IF ~VggLayersOk(style_layers' \o content_layers')
       THEN /\ pc' = "error"
            /\ error' = "ValueError"
            /\ UNCHANGED <<extractor, style_targets, content_targets, image>>
       ELSE /\ extractor' = StyleContentModel(style_layers', content_layers',
                                              gram_offset_default)
            /\ \E style_net \in NetOutputsAt(extractor', style_layers'),
                  content_net \in NetOutputsAt(extractor', content_layers') :
                  /\ style_targets' =
                         ExtractorCall(extractor', style_net).style
                  /\ content_targets' =
                         ExtractorCall(extractor', content_net).content
            /\ image' = content_image
            /\ pc' = "loop"
            /\ error' = None
    /\ UNCHANGED <<configVars, step, n, m, tape, updates, checkpoints>>
    /\ UNCHANGED gramVars

\* One pass of the inner loop body: step += 1, then train_step(image), then
\* the unpacking of what train_step returned.
TrainStep ==
    /\ pc = "loop"
    /\ HasNextEpoch
    /\ HasNextStep
    /\ step' = step + 1
    /\ \E net \in NetOutputs(extractor) :
          \E outputs \in {ExtractorCall(extractor, net)} :
              IF StyleWeightsKeyError(outputs)
              THEN \* raised while train_step is traced: nothing has run
                   /\ pc' = "error"
                   /\ error' = "KeyError"
                   /\ UNCHANGED <<image, tape, updates>>
              ELSE \E scl \in {StyleContentLoss(outputs)},
                      smoothness \in {RMul(total_variation_weight,
                                           TotalVariation(image))} :
                   \E loss \in {TupleAddTensor(scl, smoothness)},
                      delta \in [1..NPix -> DeltaVals] :
                       \* opt.apply_gradients, then image.assign(clip_0_1)
                       /\ tape' = [computed |-> TRUE,
                                   outputs |-> outputs,
                                   style_loss |-> scl[3],
                                   content_loss |-> scl[2],
                                   smoothness |-> smoothness,
                                   loss |-> loss,
                                   target |-> GradientTarget(loss)]
                       /\ updates' = updates + 1
                       /\ image' = clip_0_1([i \in 1..NPix |->
                                                image[i] - delta[i]])
                       \* train_step has no return statement: it returns
                       \* None, and unpacking None into three names raises
                       /\ pc' = "error"
                       /\ error' = "TypeError"
    /\ UNCHANGED <<configVars, content_layers, style_layers,
                   num_content_layers, num_style_layers, extractor,
                   style_targets, content_targets, n, m, checkpoints>>
    /\ UNCHANGED gramVars

\* After the inner loop of epoch n: save_image(_tensor_to_image(image), ...).
\* save_folder is true here: a false one does not pass os.path.isdir/mkdir.
EpochCheckpoint ==
    /\ pc = "loop"
    /\ HasNextEpoch
    /\ StepsExhausted
    /\ checkpoints' = Append(checkpoints,
                             [epoch |-> n, steps |-> m,
                              image |-> TensorToImage(image)])
    /\ n' = n + 1
    /\ m' = 0
    /\ UNCHANGED <<pc, error, configVars, content_layers, style_layers,
                   num_content_layers, num_style_layers, extractor,
                   style_targets, content_targets, image, step, tape,
                   updates>>
    /\ UNCHANGED gramVars

\* the outer loop is exhausted: style_transfer returns
Return ==
    /\ pc = "loop"
    /\ ~HasNextEpoch
    /\ pc' = "done"
    /\ UNCHANGED <<error, configVars, content_layers, style_layers,
                   num_content_layers, num_style_layers, extractor,
                   style_targets, content_targets, image, step, n, m, tape,
                   updates, checkpoints>>
    /\ UNCHANGED gramVars

\* gram before _gram_matrix is applied
NotApplied == <<>>

\* a tensor that is never used: the run does not call _gram_matrix directly
IdleTensor == Activation(0, 2)

Init ==
    /\ \E c \in Configs : Called(c)
    /\ input_tensor = IdleTensor
    /\ offset = gram_offset_default
    /\ gram = NotApplied

Next == Construct \/ TrainStep \/ EpochCheckpoint \/ Return

Spec == Init /\ [][Next]_vars

\* ------------------------------------------- _gram_matrix, applied directly
\* the h x w x c tensor that is v1 at position p1, v2 at p2, 0 elsewhere
SparseTensor(h, w, c, p1, v1, p2, v2) ==
    [i \in 1..h |->
        [j \in 1..w |->
            [k \in 1..c |->
                LET q == ((i - 1) * w + (j - 1)) * c + k
                IN  IF q = p2 THEN v2 ELSE IF q = p1 THEN v1 ELSE 0]]]

InitGram ==
    /\ Called(BaseConfig)
    /\ \E h \in 1..MaxDim, w \in 1..MaxDim, c \in 1..MaxChan :
          \E p1 \in 1..(h * w * c), v1 \in 0..MaxVal, v2 \in 0..MaxVal :
              \E p2 \in p1..(h * w * c) :
                  input_tensor = SparseTensor(h, w, c, p1, v1, p2, v2)
    /\ offset \in 1..Min(Len(input_tensor), Len(input_tensor[1]))
    /\ gram = NotApplied

\* gram = _gram_matrix(input_tensor, offset)
ApplyGramMatrix ==
    /\ gram = NotApplied
    /\ gram' = GramMatrix(input_tensor, offset)
    /\ UNCHANGED <<input_tensor, offset>>
    /\ UNCHANGED runVars

NextGram == ApplyGramMatrix

SpecGram == InitGram /\ [][NextGram]_vars

\* ------------------------------------------------------------- properties
\* the candidate image exists: the run passed image = tf.Variable(...)
HasImage == pc \in {"loop", "done"} \/ error \in {"KeyError", "TypeError"}

\* the layer arguments name layers of the network, as lists, one weight each
ValidArgs ==
    /\ configured.content_layers.kind = "seq"
    /\ VggLayersOk(configured.style_layers \o configured.content_layers.val)
    /\ Len(configured.style_layer_weights) = Len(configured.style_layers)

\* C1: after the optimizer update and the clip of a step, every pixel of the
\* candidate image lies in [0, 1]; so does it between steps and when a
\* checkpoint is written, whose 8-bit pixels then lie in 0..255.
RangeInvariant ==
    /\ HasImage => \A i \in DOMAIN image : 0 <= image[i] /\ image[i] <= Unit
    /\ \A k \in 1..Len(checkpoints) :
           \A i \in DOMAIN checkpoints[k].image :
               checkpoints[k].image[i] \in 0..255

\* a step ran, and a pixel that was 1.0 and was moved is 1.0 again: it was
\* pushed above 1.0 and clipped
RangeWitness ==
    /\ updates = 1
    /\ tape.computed
    /\ image # content_image
    /\ \E i \in DOMAIN image : content_image[i] = 0 /\ image[i] = Unit
    /\ \E i \in DOMAIN image : content_image[i] = Unit /\ image[i] = 0

\* C2: a run with valid layer arguments always reaches its end, with exactly
\* epochs x steps_per_epoch optimizer steps done and exactly `epochs`
\* checkpoints written; there is no early exit.
RunsAllStepsClaim ==
    (ValidArgs /\ pc \in {"done", "error"}) =>
        /\ pc = "done"
        /\ updates = epochs * steps_per_epoch
        /\ Len(checkpoints) = epochs

\* C3: with epochs = 0 or steps_per_epoch = 0 no optimizer update is
\* performed and the candidate image stays equal to the (clipped) content
\* image.
ZeroStepIdentity ==
    (epochs = 0 \/ steps_per_epoch = 0) =>
        /\ updates = 0
        /\ step = 0
        /\ HasImage =>
               /\ image = clip_0_1(content_image)
               /\ image = content_image

\* a run of several epochs without steps has ended
ZeroStepWitness ==
    /\ pc = "done"
    /\ epochs = MaxEpochs
    /\ steps_per_epoch = 0
    /\ Len(checkpoints) = epochs
    /\ image = content_image
    /\ checkpoints[epochs].image = TensorToImage(content_image)

\* the L1 difference at entry i of the style-layer list
StyleL1(i) ==
    MeanAbsDiffMatrix(tape.outputs.style[style_layers[i]],
                      style_targets[style_layers[i]])

\* (style_weight / number of style layers) x sum_i (w_i x d_i), one term per
\* entry of the style-layer list
PositionalStyleLoss ==
    RMul(RDivInt(style_weight, Len(style_layers)),
         RSum([i \in 1..Len(style_layers) |->
                  RMul(style_layer_weights[i], StyleL1(i))]))

NoDuplicates(s) ==
    \A i \in 1..Len(s) : \A j \in 1..Len(s) : s[i] = s[j] => i = j

\* C4 as stated: for every list of style layers with a weight for each entry
\* the style loss is the positional weighted sum, one term per entry.
WeightedStyleLossClaim ==
    (tape.computed /\ Len(style_layer_weights) >= Len(style_layers)) =>
        tape.style_loss = PositionalStyleLoss

\* C4 as amended: the same, for style-layer lists of pairwise distinct names.
WeightedStyleLoss ==
    (tape.computed /\ Len(style_layer_weights) >= Len(style_layers)
        /\ NoDuplicates(style_layers)) =>
        tape.style_loss = PositionalStyleLoss

\* a loss over two distinct layers whose differences differ
WeightedStyleLossWitness ==
    /\ tape.computed
    /\ Len(style_layers) = 2
    /\ style_layers[1] # style_layers[2]
    /\ Len(style_layer_weights) = 2
    /\ StyleL1(1) = RInt(1)
    /\ StyleL1(2) = RInt(0)
    /\ tape.style_loss = RMul(R(1, 200), style_layer_weights[1])

\* C5: a style-layer list and a weight list of different lengths are a fatal
\* error at construction: the run is in error once construction is over, and
\* no optimization step is ever performed.
LengthMismatchFatalClaim ==
    (Len(configured.style_layers) # Len(configured.style_layer_weights)
        /\ pc # "start") =>
        /\ pc = "error"
        /\ updates = 0

NonNegativeWeights ==
    /\ RGeq0(style_weight)
    /\ RGeq0(content_weight)
    /\ RGeq0(total_variation_weight)
    /\ \A i \in 1..Len(style_layer_weights) : RGeq0(style_layer_weights[i])

LossesNonNegative ==
    /\ RGeq0(tape.style_loss)
    /\ RGeq0(tape.content_loss)
    /\ RGeq0(tape.smoothness)
    /\ RGeq0(RAdd(RAdd(tape.style_loss, tape.content_loss), tape.smoothness))

\* C6 as stated: at every step, for any weights, the style loss, the content
\* loss, the smoothness loss and their total are >= 0.
NonNegativityClaim == tape.computed => LossesNonNegative

\* every correlation matrix averages over at least one position
FiniteCorrelations == extractor.gram_offset < act_side

\* C6 as amended: the same when style_weight, content_weight,
\* total_variation_weight and every per-layer weight are >= 0 and the
\* correlation offset is smaller than the side of the style activations (no
\* correlation matrix is 0/0); then what train_step differentiates is >= 0
\* too.
NonNegativity ==
    (tape.computed /\ NonNegativeWeights /\ FiniteCorrelations) =>
        /\ LossesNonNegative
        /\ \A i \in 1..Len(tape.loss) : RGeq0(tape.loss[i])
        /\ RGeq0(tape.target)

\* a step with non-negative weights where all three losses are positive
NonNegativityWitness ==
    /\ tape.computed
    /\ NonNegativeWeights
    /\ tape.style_loss[1] > 0
    /\ tape.content_loss[1] > 0
    /\ tape.smoothness[1] > 0

\* ---- properties of _gram_matrix, under SpecGram
TensorH == Len(input_tensor)

TensorW == Len(input_tensor[1])

TensorC == Len(input_tensor[1][1])

\* sum over 0 <= i < H-k, 0 <= j < W-k of A[i+k, j+k, c] x A[i, j, d]
RECURSIVE ShiftedSum(_, _, _, _)
ShiftedSum(c, d, i, j) ==
    IF i > TensorH - offset THEN 0
    ELSE IF j > TensorW - offset THEN ShiftedSum(c, d, i + 1, 1)
    ELSE input_tensor[i + offset][j + offset][c] * input_tensor[i][j][d]
             + ShiftedSum(c, d, i, j + 1)

\* C7: for 1 <= k < min(H, W), _gram_matrix returns a C x C matrix whose
\* entry (c, d) is the shifted sum divided by exactly (H-k) x (W-k).
CorrelationStatistic ==
    (gram # NotApplied /\ offset < Min(TensorH, TensorW)) =>
        /\ Len(gram) = TensorC
        /\ \A c \in 1..TensorC :
               /\ Len(gram[c]) = TensorC
               /\ \A d \in 1..TensorC :
                      gram[c][d] =
                          R(ShiftedSum(c, d, 1, 1),
                            (TensorH - offset) * (TensorW - offset))

\* a 3 x 2 map of two channels at offset 1: the entry (1, 2) is 1/2 of a
\* product that the entry (2, 1) does not see
CorrelationWitness ==
    /\ gram # NotApplied
    /\ TensorH = 3
    /\ TensorW = 2
    /\ TensorC = 2
    /\ offset = 1
    /\ gram[1][2] = R(1, 2)
    /\ gram[2][1] = R(0, 1)

\* C8: the quantity differentiated at a step is style loss + content loss +
\* total_variation_weight x TV(candidate), each counted exactly once.
GradientOfTotalLossClaim ==
    tape.computed =>
        tape.target =
            RAdd(RAdd(tape.style_loss, tape.content_loss), tape.smoothness)

\* the content-layer names as configured: a single name is one layer
ConfiguredContentLayers ==
    IF configured.content_layers.kind = "str"
    THEN <<configured.content_layers.val>>
    ELSE configured.content_layers.val

\* C9: the content layers of the run are exactly the configured names, given
\* as one name or as a list, and the content loss divides by their number.
ContentLayersClaim ==
    pc # "start" =>
        /\ content_layers = ConfiguredContentLayers
        /\ num_content_layers = Len(ConfiguredContentLayers)

\* C10: a checkpoint of epoch k is written only after all steps_per_epoch
\* steps of epoch k; a run that failed in a step of epoch n has written
\* exactly the checkpoints of epochs 0..n-1; after a failure nothing runs.
NoPartialEpoch ==
    /\ \A k \in 1..Len(checkpoints) :
           /\ checkpoints[k].epoch = k - 1
           /\ checkpoints[k].steps = steps_per_epoch
    /\ pc = "loop" => Len(checkpoints) = n
    /\ pc = "error" =>
           /\ Len(checkpoints) = n
           /\ ~ENABLED Next

\* a run that failed in a step after the update of that step
NoPartialEpochWitness ==
    /\ pc = "error"
    /\ error = "TypeError"
    /\ updates = 1
    /\ epochs = MaxEpochs
    /\ n = 0
    /\ checkpoints = <<>>

====
